---- MODULE Spec2Model ----
(***************************************************************************)
(* Model of the answer-resolution pipeline of AI_OCS_Question_bank:        *)
(* QueryService.query_answer over QuestionAnswerRepository, the provider   *)
(* adapters (query / _parse_response / _extract_answer_from_json), the     *)
(* retry loop AIProviderBase._make_request and AIProviderFactory.          *)
(*                                                                         *)
(* Text is a sequence of tokens.  A token is one character ("{", "\"",     *)
(* " ", "7") or a run of characters that only ever occurs as a whole       *)
(* ("answer", "API", "chaoshi").  Substring tests, case folding, the regular  *)
(* expressions and the JSON grammar work on tokens exactly as the Python   *)
(* code works on the characters.                                           *)
(***************************************************************************)
EXTENDS Integers, Sequences, FiniteSets, TLC

\* ------------------------------------------------------------------ text

DQ == "\""
SQ == "'"
LB == "{"
RB == "}"
Colon == ":"
Comma == ","

\* Python's whitespace (str.strip, regex \s): a blank and a line break.
WS == {" ", "\n"}

\* Tokens the regex class \w matches: letters, digits, CJK ideographs.  The
\* Chinese phrases of the source are written in pinyin:
\*   beijing 北京          alibailian 阿里百炼     diaoyongshibai 调用失败
\*   wufacong 无法从       huoqudaan 获取答案      qingqiuyichang 请求异常
\*   xiangying 响应        jiexishibai 解析失败    chaoshi 超时
\*   cuowu 错误
WordTok ==
    {"answer", "anwser", "x", "7", "null", "API", "api", "OpenAI", "openai", "beijing",
     "alibailian", "diaoyongshibai", "wufacong", "huoqudaan", "qingqiuyichang", "xiangying",
     "jiexishibai", "chaoshi", "cuowu", "Google", "google", "Studio", "studio"}

Digit == {"7"}

\* str.lower(): only the tokens with upper-case letters change.
LowerTok(t) ==
    CASE t = "API" -> "api"
      [] t = "OpenAI" -> "openai"
      [] t = "Google" -> "google"
      [] t = "Studio" -> "studio"
      [] OTHER -> t

lower(s) == [i \in 1..Len(s) |-> LowerTok(s[i])]

\* Python's `sub in s`.
Contains(s, sub) ==
    \E i \in 0..(Len(s) - Len(sub)) :
        \A k \in 1..Len(sub) : s[i + k] = sub[k]

\* `not s.strip()` for a string: nothing but whitespace.
IsBlank(s) == \A i \in 1..Len(s) : s[i] \in WS

\* ------------------------------------------------------- Python values
\* A value an adapter can hand back: a str (s = its text), an int (s = its
\* digits), a dict (s = <<>> for {} and <<"k">> for a non-empty one) or None.

PyStr(s) == [t |-> "str", s |-> s]
PyInt(d) == [t |-> "int", s |-> d]
PyDict(nonEmpty) == [t |-> "dict", s |-> IF nonEmpty THEN <<"k">> ELSE <<>>]
PyNone == [t |-> "none", s |-> <<>>]

\* bool(v): the empty str, the empty dict and None are falsy; the digits of
\* the model are never 0.
Truthy(v) == v.t # "none" /\ v.s # <<>>

Missing == [t |-> "missing", s |-> <<>>]

\* --------------------------------------------------- sequence helpers

\* The first index >= i whose token is not in S (Len(s) + 1 when none).
RECURSIVE SkipWhile(_, _, _)
SkipWhile(s, i, S) ==
    IF i <= Len(s) /\ s[i] \in S THEN SkipWhile(s, i + 1, S) ELSE i

\* The first index >= i whose token is tok (Len(s) + 1 when none).
RECURSIVE SkipUntil(_, _, _)
SkipUntil(s, i, tok) ==
    IF i <= Len(s) /\ s[i] # tok THEN SkipUntil(s, i + 1, tok) ELSE i

\* str.find / str.rfind, 1-based, 0 when absent.
find(s, tok) ==
    IF SkipUntil(s, 1, tok) > Len(s) THEN 0 ELSE SkipUntil(s, 1, tok)

rfind(s, tok) ==
    IF \E i \in 1..Len(s) : s[i] = tok
    THEN CHOOSE i \in 1..Len(s) : s[i] = tok /\ \A j \in (i + 1)..Len(s) : s[j] # tok
    ELSE 0

\* str.strip()
strip(s) ==
    IF IsBlank(s) THEN <<>>
    ELSE LET a == SkipWhile(s, 1, WS)
             b == CHOOSE i \in 1..Len(s) :
                      s[i] \notin WS /\ \A j \in (i + 1)..Len(s) : s[j] \in WS
         IN  SubSeq(s, a, b)

\* ------------------------------------------------------ AnswerValidator

error_keywords ==
    << <<"API", "diaoyongshibai">>,             \* "API调用失败"
       <<"wufacong", "API", "huoqudaan">>,      \* "无法从API获取答案"
       <<"API", "qingqiuyichang">>,             \* "API请求异常"
       <<"diaoyongshibai">>,                    \* "调用失败"
       <<"jiexishibai">>,                       \* "解析失败"
       <<"chaoshi">>,                           \* "超时"
       <<"cuowu">> >>                           \* "错误"

\* A keyword test that stops before "超时" and "错误".
Mut_HasErrorKeyword(text) ==
    \E k \in 1..5 : Contains(lower(text), error_keywords[k])

\* The keyword test of the loop: `keyword in answer_lower`.
HasErrorKeyword(text) ==
    \E k \in DOMAIN error_keywords : Contains(lower(text), error_keywords[k])

\* _is_valid_answer without the test for a blank answer.
Mut_is_valid_answer(answer) ==
    IF ~Truthy(answer) THEN "invalid"
    ELSE IF answer.t # "str" THEN "raise"
    ELSE IF HasErrorKeyword(answer.s) THEN "invalid"
    ELSE "valid"

\* QueryService._is_valid_answer on a Python value: "valid" (True),
\* "invalid" (False) or "raise" (answer.strip() on a value that is no str).
_is_valid_answer(answer) ==
    IF ~Truthy(answer) THEN "invalid"
    ELSE IF answer.t # "str" THEN "raise"
    ELSE IF IsBlank(answer.s) THEN "invalid"
    ELSE IF HasErrorKeyword(answer.s) THEN "invalid"
    ELSE "valid"

\* ------------------------------------------------------ AnswerExtractor

\* json_str.replace("'", '"')
ReplaceQuotes(s) == [i \in 1..Len(s) |-> IF s[i] = SQ THEN DQ ELSE s[i]]

\* The regex  <opener>(\s*)(\w+)(\s*):  tried at index i: the index of its
\* ":" when it matches there, else 0.
KeyMatch(s, i, opener) ==
    IF i > Len(s) \/ s[i] # opener THEN 0
    ELSE LET a == SkipWhile(s, i + 1, WS)
             b == SkipWhile(s, a, WordTok)
             c == SkipWhile(s, b, WS)
         IN  IF b > a /\ c <= Len(s) /\ s[c] = Colon THEN c ELSE 0

\* re.sub(r'<opener>(\s*)(\w+)(\s*):', r'<opener>\1"\2"\3:', s) from index i.
RECURSIVE QuoteKeys(_, _, _)
QuoteKeys(s, i, opener) ==
    IF i > Len(s) THEN <<>>
    ELSE IF KeyMatch(s, i, opener) = 0
         THEN <<s[i]>> \o QuoteKeys(s, i + 1, opener)
         ELSE LET a == SkipWhile(s, i + 1, WS)
                  b == SkipWhile(s, a, WordTok)
                  c == KeyMatch(s, i, opener)
              IN  <<s[i]>> \o SubSeq(s, i + 1, a - 1) \o <<DQ>>
                    \o SubSeq(s, a, b - 1) \o <<DQ>> \o SubSeq(s, b, c - 1)
                    \o <<Colon>> \o QuoteKeys(s, c + 1, opener)

\* re.sub(r'\s+', ' ', s) from index i.
RECURSIVE CollapseWS(_, _)
CollapseWS(s, i) ==
    IF i > Len(s) THEN <<>>
    ELSE IF s[i] \in WS
         THEN <<" ">> \o CollapseWS(s, SkipWhile(s, i, WS))
         ELSE <<s[i]>> \o CollapseWS(s, i + 1)

\* The normalisation of the braces slice, steps 1 to 3.
Normalize(json_str) ==
    strip(CollapseWS(QuoteKeys(QuoteKeys(ReplaceQuotes(json_str), 1, LB), 1, Comma), 1))

\* json.loads: a parse result is [ok, pos, val, ans, anw]; for an object
\* ans / anw are its values under "answer" / "anwser" (Missing when absent).
ParseFail ==
    [ok |-> FALSE, pos |-> 0, val |-> PyNone, ans |-> Missing, anw |-> Missing]

ParseOk(pos, val) ==
    [ok |-> TRUE, pos |-> pos, val |-> val, ans |-> Missing, anw |-> Missing]

RECURSIVE ParseValue(_, _), ParseMembers(_, _, _)

\* The JSON value that starts at index i.
ParseValue(s, i) ==
    IF i > Len(s) THEN ParseFail
    ELSE IF s[i] = DQ
    THEN LET e == SkipUntil(s, i + 1, DQ)
         IN  IF e <= Len(s) /\ \A j \in (i + 1)..(e - 1) : s[j] # "\n"
             THEN ParseOk(e + 1, PyStr(SubSeq(s, i + 1, e - 1)))
             ELSE ParseFail
    ELSE IF s[i] \in Digit
    THEN LET e == SkipWhile(s, i, Digit)
         IN  ParseOk(e, PyInt(SubSeq(s, i, e - 1)))
    ELSE IF s[i] = "null" THEN ParseOk(i + 1, PyNone)
    ELSE IF s[i] = LB
    THEN LET a == SkipWhile(s, i + 1, WS)
         IN  IF a <= Len(s) /\ s[a] = RB
             THEN ParseOk(a + 1, PyDict(FALSE))
             ELSE ParseMembers(s, a, [ans |-> Missing, anw |-> Missing])
    ELSE ParseFail

\* The members of an object from the key expected at index i; acc holds the
\* "answer" / "anwser" values read so far (a later duplicate key wins).
ParseMembers(s, i, acc) ==
    IF i > Len(s) \/ s[i] # DQ THEN ParseFail
    ELSE LET k == ParseValue(s, i)
         IN  IF ~k.ok THEN ParseFail
             ELSE LET c == SkipWhile(s, k.pos, WS)
                  IN  IF c > Len(s) \/ s[c] # Colon THEN ParseFail
                      ELSE LET v == ParseValue(s, SkipWhile(s, c + 1, WS))
                           IN  IF ~v.ok THEN ParseFail
                               ELSE LET acc2 ==
                                          [ans |-> IF k.val.s = <<"answer">>
                                                   THEN v.val ELSE acc.ans,
                                           anw |-> IF k.val.s = <<"anwser">>
                                                   THEN v.val ELSE acc.anw]
                                        d == SkipWhile(s, v.pos, WS)
                                    IN  IF d > Len(s) THEN ParseFail
                                        ELSE IF s[d] = RB
                                        THEN [ok |-> TRUE, pos |-> d + 1,
                                              val |-> PyDict(TRUE),
                                              ans |-> acc2.ans, anw |-> acc2.anw]
                                        ELSE IF s[d] = Comma
                                        THEN ParseMembers(s, SkipWhile(s, d + 1, WS), acc2)
                                        ELSE ParseFail

\* json.loads(s): one value, whitespace around it, nothing after it;
\* ParseFail stands for json.JSONDecodeError.
json_loads(s) ==
    LET r == ParseValue(s, SkipWhile(s, 1, WS))
    IN  IF r.ok /\ SkipWhile(s, r.pos, WS) = Len(s) + 1 THEN r ELSE ParseFail

\* re.search(r'"<key>"\s*:\s*"([^"]+)"', text) tried at index i: the index
\* of the closing quote when it matches there, else 0.
PairMatch(text, i, key) ==
    IF i + 2 > Len(text) \/ text[i] # DQ \/ text[i + 1] # key \/ text[i + 2] # DQ
    THEN 0
    ELSE LET c == SkipWhile(text, i + 3, WS)
         IN  IF c > Len(text) \/ text[c] # Colon THEN 0
             ELSE LET d == SkipWhile(text, c + 1, WS)
                  IN  IF d > Len(text) \/ text[d] # DQ THEN 0
                      ELSE LET e == SkipUntil(text, d + 1, DQ)
                           IN  IF e <= Len(text) /\ e > d + 1 THEN e ELSE 0

\* The group the search captures at its leftmost match; <<>> when no match.
PairSearch(text, key) ==
    IF \E i \in 1..Len(text) : PairMatch(text, i, key) # 0
    THEN LET i == CHOOSE i \in 1..Len(text) :
                      /\ PairMatch(text, i, key) # 0
                      /\ \A j \in 1..(i - 1) : PairMatch(text, j, key) = 0
             e == PairMatch(text, i, key)
             d == SkipUntil(text, SkipWhile(text, i + 3, WS), Colon)
             q == SkipWhile(text, d + 1, WS)
         IN  SubSeq(text, q + 1, e - 1)
    ELSE <<>>

\* An except branch that gives an empty text when the search finds nothing.
Mut_RegexFallback(ai_answer) ==
    IF PairSearch(ai_answer, "answer") # <<>>
    THEN PyStr(PairSearch(ai_answer, "answer"))
    ELSE PyStr(<<>>)

\* The except json.JSONDecodeError branch.
RegexFallback(ai_answer) ==
    IF Contains(ai_answer, <<DQ, "answer", DQ>>) \/ Contains(ai_answer, <<DQ, "anwser", DQ>>)
    THEN IF PairSearch(ai_answer, "answer") # <<>>
         THEN PyStr(PairSearch(ai_answer, "answer"))
         ELSE IF PairSearch(ai_answer, "anwser") # <<>>
              THEN PyStr(PairSearch(ai_answer, "anwser"))
              ELSE PyStr(ai_answer)
    ELSE PyStr(ai_answer)

\* _extract_answer_from_json that hands back the reply as it came.
Mut_extract_answer_from_json(ai_answer) == PyStr(ai_answer)

\* AIProviderBase._extract_answer_from_json on a str.
_extract_answer_from_json(ai_answer) ==
    IF find(ai_answer, LB) # 0 /\ find(ai_answer, RB) # 0
    THEN LET json_str ==
                 Normalize(SubSeq(ai_answer, find(ai_answer, LB), rfind(ai_answer, RB)))
             answer_dict == json_loads(json_str)
         IN  IF answer_dict.ok
             THEN IF answer_dict.ans # Missing THEN answer_dict.ans
                  ELSE IF answer_dict.anw # Missing THEN answer_dict.anw
                  ELSE PyStr(ai_answer)
             ELSE RegexFallback(ai_answer)
    ELSE PyStr(ai_answer)

\* ----------------------------------------------------- RetryingRequester
\* More pinyin tokens, none of them matched by \w as a whole:
\*   diaoyong 调用   qingshaohouzaishi "，请稍后再试"
\*   duocichangshihourengwufa "多次尝试后仍无法"

\* What one requests.post can do: "ok" (status < 400, body = the response
\* text), "s4xx", "s5xx" (an error status), "timeout" (requests Timeout),
\* "reqexc" (another RequestException), "other" (any other exception).
AttemptKinds == {"ok", "s4xx", "s5xx", "timeout", "reqexc", "other"}

\* str(e) of the HTTPError raise_for_status raises, e.g.
\* "404 Client Error: Not Found for url: ...".
HTTPErrorText == <<"7", " ", "x", ":", " ", "x">>

\* str(e) of a transport exception or of any other exception.
ExcText == <<"x">>

TimeoutMsg == <<"API", "diaoyong", "chaoshi", "qingshaohouzaishi">>
RequestExcMsg(e) == <<"API", "qingqiuyichang", ":", " ">> \o e
CallFailedMsg(e) == <<"API", "diaoyongshibai", ":", " ">> \o e
ExhaustedMsg == <<"duocichangshihourengwufa", "huoqudaan", "qingshaohouzaishi">>

\* No response text.
NoBody == [shape |-> "none", content |-> PyNone]

\* A RequestException handler that gives up at once.
Mut_RequestExceptionHandler(attempt, max_retries, e) ==
    [act |-> "raise", body |-> NoBody, msg |-> RequestExcMsg(e)]

\* One iteration of the for loop of _make_request, for attempt (0-based) and
\* what requests.post did: [act, body, msg] with act "return" (body = the
\* response text), "raise" (msg = the exception text) or "sleep"
\* (time.sleep(retry_delay), then the next iteration).
\* raise_for_status raises requests.exceptions.HTTPError, a
\* RequestException, inside the try: the RequestException handler gets it.
RequestExceptionHandler(attempt, max_retries, e) ==
    IF attempt < max_retries - 1
    THEN [act |-> "sleep", body |-> NoBody, msg |-> <<>>]
    ELSE [act |-> "raise", body |-> NoBody, msg |-> RequestExcMsg(e)]

AttemptStep(attempt, max_retries, out) ==
    CASE out.kind = "ok" -> [act |-> "return", body |-> out.body, msg |-> <<>>]
      [] out.kind = "s5xx" ->
            IF attempt < max_retries - 1
            THEN [act |-> "sleep", body |-> NoBody, msg |-> <<>>]
            ELSE RequestExceptionHandler(attempt, max_retries, HTTPErrorText)
      [] out.kind = "s4xx" ->
            RequestExceptionHandler(attempt, max_retries, HTTPErrorText)
      [] out.kind = "timeout" ->
            IF attempt < max_retries - 1
            THEN [act |-> "sleep", body |-> NoBody, msg |-> <<>>]
            ELSE [act |-> "raise", body |-> NoBody, msg |-> TimeoutMsg]
      [] out.kind = "reqexc" ->
            RequestExceptionHandler(attempt, max_retries, ExcText)
      [] OTHER ->
            [act |-> "raise", body |-> NoBody, msg |-> CallFailedMsg(ExcText)]

\* _make_request run to its end on the outcomes of its successive posts,
\* from iteration attempt: [raised, body, msg].
RECURSIVE _make_request(_, _, _)
_make_request(outs, attempt, max_retries) ==
    IF attempt >= max_retries
    THEN [raised |-> TRUE, body |-> NoBody, msg |-> ExhaustedMsg]
    ELSE LET r == AttemptStep(attempt, max_retries, outs[attempt + 1])
         IN  CASE r.act = "return" -> [raised |-> FALSE, body |-> r.body, msg |-> <<>>]
               [] r.act = "raise" -> [raised |-> TRUE, body |-> NoBody, msg |-> r.msg]
               [] OTHER -> _make_request(outs, attempt + 1, max_retries)

\* ------------------------------------------------------- ProviderAdapter

\* AIProviderBase.__init__: max_retries = config.get('max_retries', 3); the
\* dict of a ProviderConfig has no such key, so every adapter has 3.
DefaultMaxRetries == 3

\* AIProviderBase.__init__: retry_delay = config.get('retry_delay', 2) and
\* timeout = config.get('timeout', 30).
DefaultRetryDelay == 2

DefaultTimeout == 30

Providers == {"alibaba", "openai", "google"}

\* A failure string without the words "API调用失败".
Mut_FailurePrefix(provider) == <<"x", ":", " ">>

\* The text before str(e) in the string query returns from its except.
FailurePrefix(provider) ==
    CASE provider = "openai" -> <<"OpenAI", " ", "API", "diaoyongshibai", ":", " ">>
      [] provider = "google" ->
            <<"Google", " ", "Studio", " ", "API", "diaoyongshibai", ":", " ">>
      [] OTHER -> <<"alibailian", "API", "diaoyongshibai", ":", " ">>

\* "无法从API获取答案"
Sentinel == <<"wufacong", "API", "huoqudaan">>

\* "API响应解析失败: " + str(e), e the json.JSONDecodeError
ParseFailedPrefix == <<"API", "xiangying", "jiexishibai", ":", " ">>
ParseFailedText == ParseFailedPrefix \o <<"x", ":", " ", "x">>

\* A response text, by the shape of its envelope:
\*   "badjson"  not JSON
\*   "scalar"   JSON, but a number or null (`"choices" in result` raises)
\*   "nokey"    an object without choices / candidates, or with an empty list
\*   "nofield"  a first element without message.content (OpenAI, Alibaba:
\*              KeyError) or without content.parts (Google: the sentinel)
\*   "noparts"  Google only: content.parts is an empty list (IndexError)
\*   "content"  the nested field is there; content is its value
EnvShapes == {"badjson", "scalar", "nokey", "nofield", "noparts", "content"}

Envelope(shape, content) == [shape |-> shape, content |-> content]

\* _parse_response: [raised, text, msg]; raised is an exception other than
\* json.JSONDecodeError leaving the method (`answer[:100]` raises TypeError
\* for a content that is no str).
_parse_response(provider, env) ==
    CASE env.shape = "badjson" -> [raised |-> FALSE, text |-> ParseFailedText, msg |-> <<>>]
      [] env.shape = "scalar" -> [raised |-> TRUE, text |-> <<>>, msg |-> ExcText]
      [] env.shape = "nokey" -> [raised |-> FALSE, text |-> Sentinel, msg |-> <<>>]
      [] env.shape = "nofield" ->
            IF provider = "google"
            THEN [raised |-> FALSE, text |-> Sentinel, msg |-> <<>>]
            ELSE [raised |-> TRUE, text |-> <<>>, msg |-> <<SQ, "x", SQ>>]
      [] env.shape = "noparts" -> [raised |-> TRUE, text |-> <<>>, msg |-> ExcText]
      [] OTHER ->
            IF env.content.t = "str"
            THEN [raised |-> FALSE, text |-> env.content.s, msg |-> <<>>]
            ELSE [raised |-> TRUE, text |-> <<>>, msg |-> ExcText]

\* The adapter's query, on the outcomes of the posts of its _make_request:
\* the Python value it returns.
query(provider, outs) ==
    LET r == _make_request(outs, 0, DefaultMaxRetries)
    IN  IF r.raised THEN PyStr(FailurePrefix(provider) \o r.msg)
        ELSE LET a == _parse_response(provider, r.body)
             IN  IF a.raised THEN PyStr(FailurePrefix(provider) \o a.msg)
                 ELSE _extract_answer_from_json(a.text)

\* ------------------------------------------------------ ProviderRegistry

NoInstance == [name |-> "none", enabled |-> FALSE, api_key |-> FALSE,
               timeout |-> 0, max_retries |-> 0, retry_delay |-> 0]

\* The fields of ProviderConfig.
ProviderConfigFields ==
    {"name", "enabled", "api_key", "base_url", "model", "max_tokens",
     "temperature", "top_p"}

\* provider_config.dict(): one key per field of ProviderConfig ("set": a
\* value the model does not look at).
ConfigDict(name, config) ==
    [k \in ProviderConfigFields |->
        CASE k = "name" -> name
          [] k = "enabled" -> config.enabled
          [] k = "api_key" -> config.api_key
          [] OTHER -> "set"]

\* A dict.get that gives 0 for a missing key.
Mut_get(d, key, default) == IF key \in DOMAIN d THEN d[key] ELSE 0

\* dict.get(key, default)
get(d, key, default) == IF key \in DOMAIN d THEN d[key] ELSE default

\* provider_class(provider_config.dict()): the adapter keeps a snapshot of
\* its configuration (api_key: whether the key is non-empty).
NewInstance(name, config) ==
    LET d == ConfigDict(name, config)
    IN  [name |-> name,
         enabled |-> get(d, "enabled", FALSE),
         api_key |-> get(d, "api_key", FALSE),
         timeout |-> get(d, "timeout", DefaultTimeout),
         max_retries |-> get(d, "max_retries", DefaultMaxRetries),
         retry_delay |-> get(d, "retry_delay", DefaultRetryDelay)]

\* is_enabled that does not look at the key.
Mut_is_enabled(inst) == inst.enabled

\* AIProviderBase.is_enabled
is_enabled(inst) == inst.enabled /\ inst.api_key

\* A create_provider that looks for the adapter class before it looks for
\* the configuration.
Mut_create_provider(f, provider_name) ==
    IF provider_name \in DOMAIN f.cache
    THEN [inst |-> f.cache[provider_name], cache |-> f.cache, why |-> "cached"]
    ELSE IF provider_name \notin f.providers_map
    THEN [inst |-> NoInstance, cache |-> f.cache, why |-> "unsupported"]
    ELSE IF provider_name \notin DOMAIN f.settings.providers
    THEN [inst |-> NoInstance, cache |-> f.cache, why |-> "notfound"]
    ELSE LET instance == NewInstance(provider_name, f.settings.providers[provider_name])
         IN  IF ~is_enabled(instance)
             THEN [inst |-> NoInstance, cache |-> f.cache, why |-> "disabled"]
             ELSE [inst |-> instance,
                   cache |-> (provider_name :> instance) @@ f.cache,
                   why |-> "created"]

\* AIProviderFactory.create_provider on the factory state f =
\* [cache, providers_map, settings]: [inst, cache, why], inst = NoInstance
\* for a None result, cache the _instances_cache afterwards.
create_provider(f, provider_name) ==
    IF provider_name \in DOMAIN f.cache
    THEN [inst |-> f.cache[provider_name], cache |-> f.cache, why |-> "cached"]
    ELSE IF provider_name \notin DOMAIN f.settings.providers
    THEN [inst |-> NoInstance, cache |-> f.cache, why |-> "notfound"]
    ELSE IF provider_name \notin f.providers_map
    THEN [inst |-> NoInstance, cache |-> f.cache, why |-> "unsupported"]
    ELSE LET instance == NewInstance(provider_name, f.settings.providers[provider_name])
         IN  IF ~is_enabled(instance)
             THEN [inst |-> NoInstance, cache |-> f.cache, why |-> "disabled"]
             ELSE [inst |-> instance,
                   cache |-> (provider_name :> instance) @@ f.cache,
                   why |-> "created"]

\* AIProviderFactory.get_default_provider
get_default_provider(f) == create_provider(f, f.settings.ai_default_provider)

\* --------------------------------------------------------------- store

\* find_by_question that finds nothing.
Mut_find_by_question(table, question) == 0

\* find_by_question without its filter on the question.
Mut_find_any(table, question) == IF Len(table) > 0 THEN 1 ELSE 0

\* QuestionAnswerRepository.find_by_question: the id (index) of the first
\* record with that question, 0 for None.
find_by_question(table, question) ==
    IF \E i \in 1..Len(table) : table[i].question = question
    THEN CHOOSE i \in 1..Len(table) :
             /\ table[i].question = question
             /\ \A j \in 1..(i - 1) : table[j].question # question
    ELSE 0

\* create that always inserts.
Mut_create_commit(table, existing, question, answer, options, question_type) ==
    Append(table, [question |-> question, answer |-> answer,
                   options |-> options, type |-> question_type])

\* The two committing branches of QuestionAnswerRepository.create, after
\* its find_by_question gave existing (a record id, or 0).
create_commit(table, existing, question, answer, options, question_type) ==
    IF existing # 0
    THEN [table EXCEPT ![existing] =
              [@ EXCEPT !.answer = answer, !.options = options, !.type = question_type]]
    ELSE Append(table, [question |-> question, answer |-> answer,
                        options |-> options, type |-> question_type])

\* count of the records with that question
CountOf(table, question) ==
    Cardinality({i \in 1..Len(table) : table[i].question = question})

\* ------------------------------------------------------------ QueryData

\* The pydantic model QueryData with its validators validate_code and
\* validate_source: raised = the constructor raised ValidationError.
\* msg: "laiyubendi" 来于本地数据库题库, "AIhuida" AI回答,
\* "weizhaodaodaan" 未找到答案, "chaxunshibai" 查询失败: <fault>.
QueryData(code, data, msg, source) ==
    [raised |-> ~(code \in {0, 1} /\ source \in {"public", "ai"}),
     code |-> code, data |-> data, msg |-> msg, source |-> source]

NoResult == [raised |-> FALSE, code |-> 0, data |-> PyNone, msg |-> "", source |-> ""]

\* --------------------------------------------------------------- inputs

\* Longest answer text v of a reply {"answer":"v"}.
MaxAnswerLen == 2

\* Database faults (an exception inside a query or a commit) per run.
MaxFaults == 1

AnswerAlphabet == {"beijing", " "}

AnswerTexts == UNION {[1..n -> AnswerAlphabet] : n \in 1..MaxAnswerLen}

\* The model's reply {"answer":"v"}.
JsonReply(v) == <<LB, DQ, "answer", DQ, Colon, DQ>> \o v \o <<DQ, RB>>

\* Other replies of a model: nothing, a blank, plain text, failure words, an
\* empty answer, an answer with two blanks in a row, a number or null as
\* the answer, the misspelt key, single quotes in prose and a bare key.
OtherTexts ==
    { <<>>, <<" ">>, <<"beijing">>, <<"x", "chaoshi">>,
      JsonReply(<<"cuowu">>), JsonReply(<<>>), JsonReply(<<"beijing", " ", " ">>),
      <<LB, DQ, "answer", DQ, Colon, "7", RB>>,
      <<LB, DQ, "answer", DQ, Colon, "null", RB>>,
      <<LB, DQ, "anwser", DQ, Colon, DQ, "beijing", DQ, RB>>,
      <<"x", " ", LB, SQ, "answer", SQ, Colon, " ", SQ, "beijing", SQ, RB>>,
      <<LB, "answer", Colon, " ", "beijing", RB>> }

ModelTexts == {JsonReply(v) : v \in AnswerTexts} \cup OtherTexts

Envelopes ==
    {Envelope(sh, PyNone) : sh \in EnvShapes \ {"content"}}
      \cup {Envelope("content", c) : c \in {PyNone, PyInt(<<"7">>)}}
      \cup {Envelope("content", PyStr(t)) : t \in ModelTexts}

FailKinds == AttemptKinds \ {"ok"}

\* The posts of one _make_request: the first k fail with f, the others
\* answer with env.
Run(k, f, env) ==
    [i \in 1..DefaultMaxRetries |->
        IF i <= k THEN [kind |-> f, body |-> NoBody] ELSE [kind |-> "ok", body |-> env]]

Scenarios ==
    {Run(k, f, Envelope("nokey", PyNone)) : k \in 1..DefaultMaxRetries, f \in FailKinds}
      \cup {Run(0, "s5xx", e) : e \in Envelopes}

\* What the adapter's query returns, for every provider and run.
QueryResult == [pr \in Providers |-> [outs \in Scenarios |-> query(pr, outs)]]

\* The model text a run delivers to the adapter (Missing when none).
ReplyOf(outs) ==
    LET r == _make_request(outs, 0, DefaultMaxRetries)
    IN  IF ~r.raised /\ r.body.shape = "content" THEN r.body.content ELSE Missing

Titles == {"q1", "q2"}

\* QueryRequest values (title non-empty and stripped by validate_title).
Requests ==
    { [title |-> "q1", options |-> "A. x B. y", type |-> "single"],
      [title |-> "q2", options |-> "", type |-> ""] }

NoRequest == [title |-> "", options |-> "", type |-> ""]

\* Settings: the default provider and the configuration of each provider
\* (api_key: whether the key is non-empty).
ProviderConfig(enabled, api_key) == [enabled |-> enabled, api_key |-> api_key]

SettingsOf(default, providers) ==
    [ai_default_provider |-> default, ai_timeout |-> 30, ai_max_retries |-> 3,
     ai_retry_delay |-> 2, providers |-> providers]

SettingsChoices ==
    { SettingsOf("alibaba", "alibaba" :> ProviderConfig(TRUE, TRUE)),
      SettingsOf("google", "google" :> ProviderConfig(TRUE, TRUE)),
      SettingsOf("openai", "openai" :> ProviderConfig(TRUE, FALSE)) }

\* ---------------------------------------------------------------- state

VARIABLES
    store,      \* the question_answer table: a sequence of records, index = id
    factory,    \* AIProviderFactory: [cache, providers_map, settings]
    procs,      \* per session: the query_answer call in progress
    faults,     \* database faults so far
    answered,   \* per title: the data of the last code=1 result (Missing: none)
    created,    \* the direct calls of QuestionAnswerRepository.create so far
    rq,         \* the _make_request call in progress
    call,       \* the last application of one of the program's functions
    reg         \* the create_provider calls in progress, one per thread

vars == <<store, factory, procs, faults, answered, created, rq, call, reg>>

Procs == {1, 2}

\* A session with no call in progress.  pre: the table when the call began;
\* prior: the data last returned with code=1 for the title before this call;
\* log: the calls made so far ("lookup", "query", "create"); found: the
\* record the lookup gave; reply: the model text of the provider's answer;
\* lookupFault / saveFault: a database fault hit this call.
Idle ==
    [pc |-> "idle", req |-> NoRequest, pre |-> <<>>, prior |-> Missing,
     log |-> <<>>, found |-> 0,
     avail |-> FALSE, reply |-> Missing, ai_answer |-> PyNone, existing |-> 0,
     lookupFault |-> FALSE, saveFault |-> FALSE, result |-> NoResult]

InitFactory(settings) ==
    [cache |-> <<>>, providers_map |-> Providers, settings |-> settings]

\* No _make_request in progress.  log: what each post did, and "sleep"
\* for each time.sleep(retry_delay).
IdleRequest ==
    [pc |-> "idle", max_retries |-> 0, retry_delay |-> 0, attempt |-> 0,
     log |-> <<>>, slept |-> 0,
     raised |-> FALSE, body |-> NoBody, msg |-> <<>>]

\* No function has been applied yet.
NoCall == [fn |-> "none", provider |-> "", outs |-> <<>>, text |-> <<>>,
           out |-> Missing, verdict |-> ""]

\* No create_provider call is running; th: the calls of the two threads
\* (at: the maintenance calls made before the cache test of the call),
\* next_id: the identity the next retained instance gets.
IdleThread == [pc |-> "idle", name |-> "", settled |-> FALSE, inst |-> NoInstance,
               ret |-> NoInstance, why |-> "", at |-> 0]

\* cls: the classes register_provider has put into _providers_map, by
\* identifier; made: for each identity, the identifier and the class it was
\* built from; admin, clears: the maintenance calls and the clear_cache
\* calls so far.
IdleRegistry == [next_id |-> 1, th |-> [p \in Procs |-> IdleThread],
                 cls |-> <<>>, made |-> <<>>, admin |-> 0, clears |-> 0]

\* A class of the _providers_map literal: ver 0, and its constructor
\* (AIProviderBase.__init__) does not raise.
BuiltinClass == [ver |-> 0, fails |-> FALSE]

\* cls._providers_map[provider_name]
ClassOf(r, name) == IF name \in DOMAIN r.cls THEN r.cls[name] ELSE BuiltinClass

Init ==
    /\ store = <<>>
    /\ factory \in {InitFactory(st) : st \in SettingsChoices}
    /\ procs = [p \in Procs |-> Idle]
    /\ faults = 0
    /\ answered = [t \in Titles |-> Missing]
    /\ created = <<>>
    /\ rq = IdleRequest
    /\ call = NoCall
    /\ reg = IdleRegistry

\* A call that ends with result r.
Finish(p, proc, r) ==
    /\ procs' = [procs EXCEPT ![p] = [proc EXCEPT !.pc = "done", !.result = r]]
    /\ answered' = IF ~r.raised /\ r.code = 1
                   THEN [answered EXCEPT ![proc.req.title] = r.data]
                   ELSE answered

\* query_answer is called.
StartQuery(p, request) ==
    /\ procs[p].pc = "idle"
    /\ procs' = [procs EXCEPT ![p] = [Idle EXCEPT !.pc = "lookup", !.req = request,
                                                   !.pre = store,
                                                   !.prior = answered[request.title]]]
    /\ UNCHANGED <<store, factory, faults, answered, created, rq, call, reg>>

\* Step 1 without the early return of a hit.
Mut_Lookup(p, fault) ==
    /\ procs[p].pc = "lookup"
    /\ fault => faults < MaxFaults
    /\ faults' = IF fault THEN faults + 1 ELSE faults
    /\ LET local_answer == IF fault THEN 0
                           ELSE find_by_question(store, procs[p].req.title)
       IN  procs' = [procs EXCEPT ![p] =
                        [@ EXCEPT !.pc = "ai", !.log = Append(@, "lookup"),
                                  !.found = local_answer, !.lookupFault = fault]]
    /\ UNCHANGED <<store, factory, answered, created, rq, call, reg>>

\* A lookup whose database fault reaches the except of query_answer.
Mut_LookupRaises(p, fault) ==
    /\ procs[p].pc = "lookup"
    /\ fault => faults < MaxFaults
    /\ faults' = IF fault THEN faults + 1 ELSE faults
    /\ LET local_answer == IF fault THEN 0
                           ELSE find_by_question(store, procs[p].req.title)
           proc == [procs[p] EXCEPT !.log = Append(@, "lookup"),
                                    !.found = local_answer, !.lookupFault = fault]
       IN  IF fault
           THEN Finish(p, proc, [raised |-> FALSE, code |-> 0, data |-> PyNone,
                                 msg |-> "chaxunshibai", source |-> "system"])
           ELSE IF local_answer # 0
           THEN Finish(p, proc, QueryData(1, PyStr(store[local_answer].answer),
                                          "laiyubendi", "public"))
           ELSE /\ procs' = [procs EXCEPT ![p] = [proc EXCEPT !.pc = "ai"]]
                /\ UNCHANGED answered
    /\ UNCHANGED <<store, factory, created, rq, call, reg>>

\* Step 1, _query_local_database; with fault the query raises inside
\* find_by_question, which returns None.
Lookup(p, fault) ==
    /\ procs[p].pc = "lookup"
    /\ fault => faults < MaxFaults
    /\ faults' = IF fault THEN faults + 1 ELSE faults
    /\ LET local_answer == IF fault THEN 0
                           ELSE find_by_question(store, procs[p].req.title)
           proc == [procs[p] EXCEPT !.log = Append(@, "lookup"),
                                    !.found = local_answer, !.lookupFault = fault]
       IN  IF local_answer # 0
           THEN Finish(p, proc, QueryData(1, PyStr(store[local_answer].answer),
                                          "laiyubendi", "public"))
           ELSE /\ procs' = [procs EXCEPT ![p] = [proc EXCEPT !.pc = "ai"]]
                /\ UNCHANGED answered
    /\ UNCHANGED <<store, factory, created, rq, call, reg>>

\* The except Exception of query_answer.
SystemFault == QueryData(0, PyNone, "chaxunshibai", "system")

\* A not-found result that carries the rejected text.
Mut_NotFound(ai_answer) ==
    [raised |-> FALSE, code |-> 0, data |-> ai_answer,
     msg |-> "weizhaodaodaan", source |-> "ai"]

\* The result of the else branch: no usable answer; the rejected ai_answer
\* is not part of it.
NotFound(ai_answer) == QueryData(0, PyNone, "weizhaodaodaan", "ai")

\* Step 2, _query_ai_provider, and the test of its answer; outs: what the
\* posts of the adapter's _make_request do.
AiQuery(p, outs) ==
    /\ procs[p].pc = "ai"
    /\ LET provider == get_default_provider(factory)
           have == provider.inst # NoInstance
           ai_answer == IF have
                        THEN QueryResult[provider.inst.name][outs]
                        ELSE PyNone
           proc == [procs[p] EXCEPT
                       !.log = IF have THEN Append(@, "query") ELSE @,
                       !.avail = have,
                       !.reply = IF have THEN ReplyOf(outs) ELSE Missing,
                       !.ai_answer = ai_answer]
           verdict == IF Truthy(ai_answer) THEN _is_valid_answer(ai_answer) ELSE "invalid"
       IN  /\ factory' = [factory EXCEPT !.cache = provider.cache]
           /\ CASE verdict = "valid" ->
                     /\ procs' = [procs EXCEPT ![p] = [proc EXCEPT !.pc = "save_find"]]
                     /\ UNCHANGED answered
                [] verdict = "invalid" -> Finish(p, proc, NotFound(ai_answer))
                [] OTHER -> Finish(p, proc, SystemFault)
    /\ UNCHANGED <<store, faults, created, rq, call, reg>>

\* Step 3, _save_to_database: the find_by_question of repository.create.
SaveFind(p, fault) ==
    /\ procs[p].pc = "save_find"
    /\ fault => faults < MaxFaults
    /\ faults' = IF fault THEN faults + 1 ELSE faults
    /\ procs' = [procs EXCEPT ![p] =
                    [@ EXCEPT !.pc = "save_commit",
                              !.log = Append(@, "create"),
                              !.existing = IF fault THEN 0
                                           ELSE find_by_question(store, procs[p].req.title)]]
    /\ UNCHANGED <<store, factory, answered, created, rq, call, reg>>

\* A create whose failed commit leaves its record in the table.
Mut_SaveCommit(p, fault) ==
    /\ procs[p].pc = "save_commit"
    /\ fault => faults < MaxFaults
    /\ faults' = IF fault THEN faults + 1 ELSE faults
    /\ LET proc == procs[p]
       IN  /\ store' = create_commit(store, proc.existing, proc.req.title,
                                     proc.ai_answer.s, proc.req.options,
                                     proc.req.type)
           /\ Finish(p, [proc EXCEPT !.saveFault = fault],
                     QueryData(1, proc.ai_answer, "AIhuida", "ai"))
    /\ UNCHANGED <<factory, created, rq, call, reg>>

\* The commit of repository.create (with fault: it raises, the session is
\* rolled back, create returns None), then the code=1 result.
SaveCommit(p, fault) ==
    /\ procs[p].pc = "save_commit"
    /\ fault => faults < MaxFaults
    /\ faults' = IF fault THEN faults + 1 ELSE faults
    /\ LET proc == procs[p]
       IN  /\ store' = IF fault THEN store
                       ELSE create_commit(store, proc.existing, proc.req.title,
                                          proc.ai_answer.s, proc.req.options,
                                          proc.req.type)
           /\ Finish(p, [proc EXCEPT !.saveFault = fault],
                     QueryData(1, proc.ai_answer, "AIhuida", "ai"))
    /\ UNCHANGED <<factory, created, rq, call, reg>>

\* The call has returned (or raised) to its caller.
Return(p) ==
    /\ procs[p].pc = "done"
    /\ procs' = [procs EXCEPT ![p] = Idle]
    /\ UNCHANGED <<store, factory, faults, answered, created, rq, call, reg>>

\* One session, one call at a time.
Next ==
    \/ \E request \in Requests : StartQuery(1, request)
    \/ \E fault \in BOOLEAN : Lookup(1, fault)
    \/ \E outs \in Scenarios : AiQuery(1, outs)
    \/ \E fault \in BOOLEAN : SaveFind(1, fault)
    \/ \E fault \in BOOLEAN : SaveCommit(1, fault)
    \/ Return(1)

Spec == Init /\ [][Next]_vars

\* ------------------------------------------- _make_request, step by step

\* The largest max_retries a call is made with.
MaxRetriesTried == 3

\* The retry_delay values a call is made with.
RetryDelays == {1, DefaultRetryDelay}

\* A pause that grows with the attempt number.
Mut_PauseFor(attempt) == rq.retry_delay * (attempt + 1)

\* The seconds of the time.sleep(self.retry_delay) after iteration attempt.
PauseFor(attempt) == rq.retry_delay

\* The response text of a post that succeeds.
OkBody == Envelope("nokey", PyNone)

\* _make_request is called on an adapter whose max_retries is the given one.
RqCall(max_retries, retry_delay) ==
    /\ rq.pc = "idle"
    /\ rq' = [IdleRequest EXCEPT !.pc = "loop", !.max_retries = max_retries,
                                 !.retry_delay = retry_delay]
    /\ UNCHANGED <<store, factory, procs, faults, answered, created, call, reg>>

\* One iteration of the for loop up to its return, raise or time.sleep;
\* kind: what requests.post does.
RqPost(kind) ==
    /\ rq.pc = "loop"
    /\ rq.attempt < rq.max_retries
    /\ LET r == AttemptStep(rq.attempt, rq.max_retries,
                            [kind |-> kind,
                             body |-> IF kind = "ok" THEN OkBody ELSE NoBody])
           logged == [rq EXCEPT !.log = Append(@, kind)]
       IN  rq' = CASE r.act = "return" ->
                        [logged EXCEPT !.pc = "done", !.body = r.body]
                   [] r.act = "raise" ->
                        [logged EXCEPT !.pc = "done", !.raised = TRUE, !.msg = r.msg]
                   [] OTHER -> [logged EXCEPT !.pc = "sleep"]
    /\ UNCHANGED <<store, factory, procs, faults, answered, created, call, reg>>

\* A pause after which the same iteration runs again.
Mut_RqSleep ==
    /\ rq.pc = "sleep"
    /\ rq' = [rq EXCEPT !.pc = "loop", !.log = Append(@, "sleep")]
    /\ UNCHANGED <<store, factory, procs, faults, answered, created, call, reg>>

\* time.sleep(retry_delay) returns (slept: the seconds paused so far); the
\* loop goes to its next iteration.
RqSleep ==
    /\ rq.pc = "sleep"
    /\ rq' = [rq EXCEPT !.pc = "loop", !.attempt = @ + 1, !.log = Append(@, "sleep"),
                        !.slept = @ + PauseFor(rq.attempt)]
    /\ UNCHANGED <<store, factory, procs, faults, answered, created, call, reg>>

\* A raise after the loop that blames a timeout.
Mut_RqExhaust ==
    /\ rq.pc = "loop"
    /\ rq.attempt >= rq.max_retries
    /\ rq' = [rq EXCEPT !.pc = "done", !.raised = TRUE, !.msg = TimeoutMsg]
    /\ UNCHANGED <<store, factory, procs, faults, answered, created, call, reg>>

\* The loop has run out: the raise after it.
RqExhaust ==
    /\ rq.pc = "loop"
    /\ rq.attempt >= rq.max_retries
    /\ rq' = [rq EXCEPT !.pc = "done", !.raised = TRUE, !.msg = ExhaustedMsg]
    /\ UNCHANGED <<store, factory, procs, faults, answered, created, call, reg>>

\* The caller has the text or the exception.
RqReset ==
    /\ rq.pc = "done"
    /\ rq' = IdleRequest
    /\ UNCHANGED <<store, factory, procs, faults, answered, created, call, reg>>

NextRetry ==
    \/ \E max_retries \in 0..MaxRetriesTried, retry_delay \in RetryDelays :
          RqCall(max_retries, retry_delay)
    \/ \E kind \in AttemptKinds : RqPost(kind)
    \/ RqSleep
    \/ RqExhaust
    \/ RqReset

\* A post returns within timeout seconds, a pause within retry_delay seconds
\* and the raise after the loop is not held up: the steps of a running
\* _make_request are taken.
RetryFairness ==
    /\ WF_vars(\E kind \in AttemptKinds : RqPost(kind))
    /\ WF_vars(RqSleep)
    /\ WF_vars(RqExhaust)

SpecRetryLive == Init /\ [][NextRetry]_vars /\ RetryFairness

SpecRetry == Init /\ [][NextRetry]_vars

\* ------------------------------------- an adapter built by the factory

\* The values of ai.timeout, ai.max_retries and ai.retry_delay in
\* config.yaml.
AISettings ==
    {[timeout |-> t, max_retries |-> m, retry_delay |-> d] :
        t \in {30, 10}, m \in {3, 1, 5}, d \in {2, 1}}

InitAdapter ==
    /\ store = <<>>
    /\ factory \in
          { InitFactory([st EXCEPT !.ai_timeout = ai.timeout,
                                  !.ai_max_retries = ai.max_retries,
                                  !.ai_retry_delay = ai.retry_delay]) :
              st \in SettingsChoices, ai \in AISettings }
    /\ procs = [p \in Procs |-> Idle]
    /\ faults = 0
    /\ answered = [t \in Titles |-> Missing]
    /\ created = <<>>
    /\ rq = IdleRequest
    /\ call = NoCall
    /\ reg = IdleRegistry

\* get_default_provider builds the adapter of the default provider.
GetProvider ==
    /\ factory.settings.ai_default_provider \notin DOMAIN factory.cache
    /\ get_default_provider(factory).inst # NoInstance
    /\ factory' = [factory EXCEPT !.cache = get_default_provider(factory).cache]
    /\ UNCHANGED <<store, procs, faults, answered, created, rq, call, reg>>

\* The query of a cached adapter calls its _make_request.
AdapterRequest ==
    \E name \in DOMAIN factory.cache :
        RqCall(factory.cache[name].max_retries, factory.cache[name].retry_delay)

\* The raise after the loop of _make_request is no step here: the loop of
\* an adapter the factory built always runs, and ends in a return or raise.
NextAdapter ==
    \/ GetProvider
    \/ AdapterRequest
    \/ \E kind \in AttemptKinds : RqPost(kind)
    \/ RqSleep
    \/ RqReset

SpecAdapter == InitAdapter /\ [][NextAdapter]_vars

\* ------------------------------------- QuestionAnswerRepository.create

\* The number of create calls of one history.
MaxCalls == 3

CreateAnswers == {<<"beijing">>, <<"x">>}

DbFaults == {"none", "find", "commit"}

\* repository.create(question, answer, options, question_type) as one
\* call.  fault "find": the query of find_by_question raises, which gives
\* None; fault "commit": the commit raises, the session is rolled back.
Create(question, answer, options, question_type, fault) ==
    /\ Len(created) < MaxCalls
    /\ fault # "none" => faults < MaxFaults
    /\ faults' = IF fault # "none" THEN faults + 1 ELSE faults
    /\ LET existing == IF fault = "find" THEN 0 ELSE find_by_question(store, question)
           after == IF fault = "commit" THEN store
                    ELSE create_commit(store, existing, question, answer,
                                       options, question_type)
       IN  /\ store' = after
           /\ created' = Append(created,
                             [question |-> question, answer |-> answer,
                              options |-> options, type |-> question_type,
                              fault |-> fault, pre |-> store, post |-> after])
    /\ UNCHANGED <<factory, procs, answered, rq, call, reg>>

\* The calls: the title of one request, the options and type of one.
NextRepo ==
    \E r1 \in Requests, r2 \in Requests, answer \in CreateAnswers, fault \in DbFaults :
        Create(r1.title, answer, r2.options, r2.type, fault)

SpecRepo == Init /\ [][NextRepo]_vars

\* ------------------------------------------------ two concurrent calls

\* What the provider does in the concurrent runs: a reply with a valid
\* answer (two different ones) or a reply that is rejected.
ConcScenarios ==
    { Run(0, "s5xx", Envelope("content", PyStr(JsonReply(<<"beijing">>)))),
      Run(0, "s5xx", Envelope("content", PyStr(JsonReply(<<"beijing", " ">>)))),
      Run(0, "s5xx", Envelope("content", PyStr(<<"x", "chaoshi">>))) }

\* Two sessions, each running query_answer calls; the steps of the two
\* interleave at the database statements and at the provider call.
NextConc ==
    \/ \E p \in Procs, request \in Requests : StartQuery(p, request)
    \/ \E p \in Procs : Lookup(p, FALSE)
    \/ \E p \in Procs, outs \in ConcScenarios : AiQuery(p, outs)
    \/ \E p \in Procs : SaveFind(p, FALSE)
    \/ \E p \in Procs : SaveCommit(p, FALSE)
    \/ \E p \in Procs : Return(p)

SpecConc == Init /\ [][NextConc]_vars

\* The title each session asks for in the runs with different titles.
TitleOf(p) == IF p = 1 THEN "q1" ELSE "q2"

\* Two sessions running query_answer calls, each for its own title.
NextIndep ==
    \/ \E p \in Procs, request \in Requests :
          request.title = TitleOf(p) /\ StartQuery(p, request)
    \/ \E p \in Procs : Lookup(p, FALSE)
    \/ \E p \in Procs, outs \in ConcScenarios : AiQuery(p, outs)
    \/ \E p \in Procs : SaveFind(p, FALSE)
    \/ \E p \in Procs : SaveCommit(p, FALSE)
    \/ \E p \in Procs : Return(p)

SpecIndep == Init /\ [][NextIndep]_vars

\* ------------------------------------- create_provider, step by step

\* The identifiers asked for: one with an adapter class in _providers_map,
\* one without.
RegNames == {"alibaba", "custom"}

\* The settings: every identifier has no configuration or one of the four
\* (enabled, api_key non-empty) configurations.
RegSettings ==
    { SettingsOf("alibaba", providers) :
        providers \in UNION { [S -> {ProviderConfig(e, k) : e \in BOOLEAN, k \in BOOLEAN}] :
                                S \in SUBSET RegNames } }

\* An instance with its identity; id 0: None.
Object(inst, id) == [obj |-> inst, id |-> id]

NoObject == Object(NoInstance, 0)

InitReg ==
    /\ store = <<>>
    /\ factory \in {InitFactory(st) : st \in RegSettings}
    /\ procs = [p \in Procs |-> Idle]
    /\ faults = 0
    /\ answered = [t \in Titles |-> Missing]
    /\ created = <<>>
    /\ rq = IdleRequest
    /\ call = NoCall
    /\ reg = IdleRegistry

\* A call of some thread for that identifier is between its cache test and
\* its return.
InFlight(name) ==
    \E q \in Procs : reg.th[q].name = name /\ reg.th[q].pc \in {"construct", "store"}

\* A call has returned: ret is its value, why the branch it took.
RegDone(p, ret, why) ==
    reg' = [reg EXCEPT !.th[p].pc = "done", !.th[p].ret = ret, !.th[p].why = why]

\* A create_provider that does not look into the cache.
Mut_RegCheck(p, name) ==
    /\ reg.th[p].pc = "idle"
    /\ reg' = [reg EXCEPT !.th[p] = [IdleThread EXCEPT
                  !.pc = "construct", !.name = name, !.at = reg.admin,
                  !.settled = name \in DOMAIN factory.cache /\ ~InFlight(name)]]
    /\ UNCHANGED <<store, factory, procs, faults, answered, created, rq, call>>

\* The cache test of create_provider; settled: at this moment the cache
\* has the identifier and no call for it is in flight.
RegCheck(p, name) ==
    /\ reg.th[p].pc = "idle"
    /\ LET th == [IdleThread EXCEPT
                     !.name = name, !.at = reg.admin,
                     !.settled = name \in DOMAIN factory.cache /\ ~InFlight(name)]
       IN  IF name \in DOMAIN factory.cache
           THEN reg' = [reg EXCEPT !.th[p] = [th EXCEPT !.pc = "done",
                                                        !.ret = factory.cache[name],
                                                        !.why = "cached"]]
           ELSE reg' = [reg EXCEPT !.th[p] = [th EXCEPT !.pc = "construct"]]
    /\ UNCHANGED <<store, factory, procs, faults, answered, created, rq, call>>

\* A create_provider that caches the instance before it tests is_enabled.
Mut_RegConstruct(p) ==
    /\ reg.th[p].pc = "construct"
    /\ LET r == create_provider([factory EXCEPT !.cache = <<>>], reg.th[p].name)
       IN  IF r.why \in {"notfound", "unsupported"}
           THEN RegDone(p, NoObject, r.why) /\ UNCHANGED factory
           ELSE LET o == Object(NewInstance(reg.th[p].name,
                                    factory.settings.providers[reg.th[p].name]),
                                reg.next_id)
                IN  /\ factory' = [factory EXCEPT !.cache = (reg.th[p].name :> o) @@ @]
                    /\ reg' = [reg EXCEPT
                          !.th[p].pc = "done",
                          !.th[p].ret = IF r.inst = NoInstance THEN NoObject ELSE o,
                          !.th[p].why = r.why,
                          !.next_id = @ + 1,
                          !.made = Append(@, [name |-> reg.th[p].name, ver |-> 0])]
    /\ UNCHANGED <<store, procs, faults, answered, created, rq, call>>

\* From get_settings to the is_enabled test, for a thread that found the
\* cache without the identifier; a constructor that raises is caught by
\* the except of create_provider, which returns None ("failed").
RegConstruct(p) ==
    /\ reg.th[p].pc = "construct"
    /\ LET r == create_provider([factory EXCEPT !.cache = <<>>], reg.th[p].name)
           c == ClassOf(reg, reg.th[p].name)
       IN  IF r.why \in {"notfound", "unsupported"}
           THEN RegDone(p, NoObject, r.why)
           ELSE IF c.fails
           THEN RegDone(p, NoObject, "failed")
           ELSE IF r.inst = NoInstance
           THEN RegDone(p, NoObject, r.why)
           ELSE reg' = [reg EXCEPT !.th[p].pc = "store",
                                   !.th[p].inst = Object(r.inst, reg.next_id),
                                   !.next_id = @ + 1,
                                   !.made = Append(@, [name |-> reg.th[p].name,
                                                       ver |-> c.ver])]
    /\ UNCHANGED <<store, factory, procs, faults, answered, created, rq, call>>

\* cls._instances_cache[provider_name] = instance, and the return.
RegStore(p) ==
    /\ reg.th[p].pc = "store"
    /\ factory' = [factory EXCEPT !.cache =
                      [n \in DOMAIN factory.cache \cup {reg.th[p].name} |->
                          IF n = reg.th[p].name THEN reg.th[p].inst ELSE factory.cache[n]]]
    /\ RegDone(p, reg.th[p].inst, "created")
    /\ UNCHANGED <<store, procs, faults, answered, created, rq, call>>

\* The caller has the instance or None.
RegReturn(p) ==
    /\ reg.th[p].pc = "done"
    /\ reg' = [reg EXCEPT !.th[p].pc = "idle"]
    /\ UNCHANGED <<store, factory, procs, faults, answered, created, rq, call>>

NextReg ==
    \/ \E p \in Procs, name \in RegNames : RegCheck(p, name)
    \/ \E p \in Procs : RegConstruct(p)
    \/ \E p \in Procs : RegStore(p)
    \/ \E p \in Procs : RegReturn(p)

SpecReg == InitReg /\ [][NextReg]_vars

\* ---------------------------------------------------- registry maintenance
\* register_provider, reload_settings and clear_cache, called between and
\* during the create_provider calls of one thread.

Caller == 1

\* The maintenance calls of one run.
MaxAdmin == 3

\* A register_provider that also drops the cached instance of the name.
Mut_register_provider(name, fails) ==
    /\ reg.admin < MaxAdmin
    /\ factory' = [factory EXCEPT
          !.providers_map = @ \cup {name},
          !.cache = [n \in DOMAIN factory.cache \ {name} |-> factory.cache[n]]]
    /\ reg' = [reg EXCEPT
          !.cls = (name :> [ver |-> ClassOf(reg, name).ver + 1, fails |-> fails]) @@ @,
          !.admin = @ + 1]
    /\ UNCHANGED <<store, procs, faults, answered, created, rq, call>>

\* AIProviderFactory.register_provider(name, provider_class), for a subclass
\* of AIProviderBase; fails: its constructor raises.
register_provider(name, fails) ==
    /\ reg.admin < MaxAdmin
    /\ factory' = [factory EXCEPT !.providers_map = @ \cup {name}]
    /\ reg' = [reg EXCEPT
          !.cls = (name :> [ver |-> ClassOf(reg, name).ver + 1, fails |-> fails]) @@ @,
          !.admin = @ + 1]
    /\ UNCHANGED <<store, procs, faults, answered, created, rq, call>>

\* reload_settings: the global settings become what config.yaml now says.
reload_settings(st) ==
    /\ reg.admin < MaxAdmin
    /\ factory' = [factory EXCEPT !.settings = st]
    /\ reg' = [reg EXCEPT !.admin = @ + 1]
    /\ UNCHANGED <<store, procs, faults, answered, created, rq, call>>

\* AIProviderFactory.clear_cache
clear_cache ==
    /\ reg.admin < MaxAdmin
    /\ factory' = [factory EXCEPT !.cache = <<>>]
    /\ reg' = [reg EXCEPT !.admin = @ + 1, !.clears = @ + 1]
    /\ UNCHANGED <<store, procs, faults, answered, created, rq, call>>

NextRegAdmin ==
    \/ \E name \in RegNames : RegCheck(Caller, name)
    \/ RegConstruct(Caller)
    \/ RegStore(Caller)
    \/ RegReturn(Caller)
    \/ \E name \in RegNames, fails \in BOOLEAN : register_provider(name, fails)
    \/ \E st \in RegSettings : reload_settings(st)
    \/ clear_cache

SpecRegAdmin == InitReg /\ [][NextRegAdmin]_vars

\* ------------------------------------------- the functions, one by one

\* The longest text put before and after a failure indicator.
MaxPadLen == 1

Pads == UNION {[1..n -> {"x", " "}] : n \in 0..MaxPadLen}

\* The seven failure indicators as written and in lower case.
KeywordForms ==
    {error_keywords[k] : k \in DOMAIN error_keywords}
        \cup {lower(error_keywords[k]) : k \in DOMAIN error_keywords}

\* The texts _is_valid_answer is applied to: an indicator with something
\* around it, answers, blanks and the empty text.
ValidatorTexts ==
    {pre \o kw \o post : pre \in Pads, kw \in KeywordForms, post \in Pads}
        \cup AnswerTexts \cup Pads

\* The reply {answer: v} with the key bare and the value as given.
BareReply(key, v) == <<LB, key, Colon, " ">> \o v \o <<RB>>

\* The texts _extract_answer_from_json is applied to: the replies of a
\* model, bare keys, braces the wrong way round, a lone brace, an object
\* without the key, an object cut short.
ExtractTexts ==
    ModelTexts
        \cup {BareReply(key, v) : key \in {"answer", "anwser"}, v \in AnswerTexts}
        \cup { BareReply("answer", <<DQ, "beijing", DQ>>),
               <<RB, " ", LB>>, <<LB, "x">>, <<"x", " ", "beijing">>,
               <<LB, DQ, "x", DQ, Colon, DQ, "beijing", DQ, RB>>,
               <<LB, DQ, "answer", DQ, Colon, DQ, "beijing", RB>>,
               <<LB, DQ, "answer", DQ, Colon, " ", "beijing", RB>> }

\* provider.query(...) where the posts of its _make_request do outs.
CallQuery(provider, outs) ==
    /\ call' = [NoCall EXCEPT !.fn = "query", !.provider = provider, !.outs = outs,
                              !.out = QueryResult[provider][outs]]
    /\ UNCHANGED <<store, factory, procs, faults, answered, created, rq, reg>>

\* _is_valid_answer(text)
CallIsValid(text) ==
    /\ call' = [NoCall EXCEPT !.fn = "valid", !.text = text,
                              !.verdict = _is_valid_answer(PyStr(text))]
    /\ UNCHANGED <<store, factory, procs, faults, answered, created, rq, reg>>

\* _extract_answer_from_json(text)
CallExtract(text) ==
    /\ call' = [NoCall EXCEPT !.fn = "extract", !.text = text,
                              !.out = _extract_answer_from_json(text)]
    /\ UNCHANGED <<store, factory, procs, faults, answered, created, rq, reg>>

NextFn ==
    \/ \E provider \in Providers, outs \in Scenarios : CallQuery(provider, outs)
    \/ \E text \in ValidatorTexts : CallIsValid(text)
    \/ \E text \in ExtractTexts : CallExtract(text)

SpecFn == Init /\ [][NextFn]_vars

\* =============================================================== claims

Done(p) == procs[p].pc = "done"

IsPrefix(pre, text) == Len(pre) <= Len(text) /\ SubSeq(text, 1, Len(pre)) = pre

\* The text is a reply {"answer":"v"}; AnswerOf is its v.
IsJsonReply(text) ==
    /\ Len(text) >= 8
    /\ IsPrefix(<<LB, DQ, "answer", DQ, Colon, DQ>>, text)
    /\ SubSeq(text, Len(text) - 1, Len(text)) = <<DQ, RB>>
    /\ \A i \in 7..(Len(text) - 2) : text[i] # DQ

AnswerOf(text) == SubSeq(text, 7, Len(text) - 2)

\* The call of session p met an internal fault: the validity check raised.
Faulted(p) ==
    /\ "query" \in {procs[p].log[i] : i \in DOMAIN procs[p].log}
    /\ Truthy(procs[p].ai_answer)
    /\ procs[p].ai_answer.t # "str"

\* C1: query_answer never lets an exception escape to its caller; a call
\* that met an internal fault (the adapter returned a value that is no str)
\* returns code=0, data=None, source="system" instead of raising.
C1_NeverRaises ==
    \A p \in Procs :
        Done(p) =>
            /\ ~procs[p].result.raised
            /\ Faulted(p) =>
                  /\ procs[p].result.code = 0
                  /\ procs[p].result.data = PyNone
                  /\ procs[p].result.source = "system"

\* A provider failure output: an adapter failure string, the envelope
\* sentinel, or the "API响应解析失败: ..." string.
IsFailureOutput(text) ==
    \/ text = Sentinel
    \/ IsPrefix(ParseFailedPrefix, text)
    \/ \E pr \in Providers : IsPrefix(FailurePrefix(pr), text)

\* C2: from an empty store written only by query_answer, no stored
\* record's answer is a provider failure output, and a call whose provider
\* response failed in transport or had no matching envelope leaves the store
\* as it was.
C2_NoFailureStored ==
    /\ \A i \in 1..Len(store) : ~IsFailureOutput(store[i].answer)
    /\ \A p \in Procs :
          (Done(p) /\ procs[p].avail /\ procs[p].reply = Missing) =>
              store = procs[p].pre

C4_CodeOneValid ==
    \A p \in Procs :
        (Done(p) /\ ~procs[p].result.raised) =>
            LET r == procs[p].result
            IN  /\ r.code = 1 =>
                      /\ r.data.t = "str"
                      /\ r.data.s # <<>>
                      /\ ~IsBlank(r.data.s)
                      /\ _is_valid_answer(r.data) = "valid"
                /\ r.code = 0 => r.data = PyNone

W_C4 ==
    \E p \in Procs :
        /\ Done(p)
        /\ procs[p].result.code = 1
        /\ procs[p].result.source = "public"
        /\ procs[p].result.data = PyStr(<<"beijing", " ">>)

\* C5: within one call the steps are the cache lookup, then only on a miss
\* one call of the provider's query, then at most one store write, and the
\* write follows a query whose answer was found valid; a hit makes no
\* provider call, and a miss with a provider available makes exactly one.
C5_StepOrder ==
    \A p \in Procs :
        LET c == procs[p]
        IN  /\ c.log \in { <<>>, <<"lookup">>, <<"lookup", "query">>,
                           <<"lookup", "query", "create">> }
            /\ Len(c.log) = 3 =>
                  /\ c.ai_answer.t = "str"
                  /\ ~IsBlank(c.ai_answer.s)
                  /\ ~HasErrorKeyword(c.ai_answer.s)
            /\ c.found # 0 => c.log = <<"lookup">>
            /\ (Done(p) /\ c.found = 0 /\ c.avail) => Len(c.log) >= 2
            /\ (Done(p) /\ ~c.avail) => c.log = <<"lookup">>

W_C5 ==
    \E p \in Procs : Done(p) /\ procs[p].log = <<"lookup", "query", "create">>

\* C6: when a record with the requested title exists (and the lookup does
\* not fault), the call returns code=1, source="public", data = the answer
\* of the first such record, makes no provider call and leaves the store
\* unchanged.
C6_CacheHit ==
    \A p \in Procs :
        (Done(p) /\ CountOf(procs[p].pre, procs[p].req.title) > 0
                 /\ ~procs[p].lookupFault) =>
            LET c == procs[p]
                first == CHOOSE i \in 1..Len(c.pre) :
                             /\ c.pre[i].question = c.req.title
                             /\ \A j \in 1..(i - 1) : c.pre[j].question # c.req.title
            IN  /\ c.result = QueryData(1, PyStr(c.pre[first].answer), "laiyubendi", "public")
                /\ c.log = <<"lookup">>
                /\ store = c.pre

W_C6 ==
    \E p \in Procs :
        /\ Done(p)
        /\ CountOf(procs[p].pre, procs[p].req.title) > 0
        /\ ~procs[p].lookupFault
        /\ procs[p].result.source = "public"

\* C7: on a miss with no usable answer (no default provider, an empty,
\* None or blank answer, or a text with a failure indicator) the call
\* returns code=0, data=None, source="ai", msg="未找到答案" and leaves the
\* store unchanged; the rejected text is not in the result.
C7_NotFound ==
    \A p \in Procs :
        LET c == procs[p]
            unusable == \/ ~c.avail
                        \/ ~Truthy(c.ai_answer)
                        \/ c.ai_answer.t = "str" /\ IsBlank(c.ai_answer.s)
                        \/ c.ai_answer.t = "str" /\ HasErrorKeyword(c.ai_answer.s)
        IN  (Done(p) /\ c.found = 0 /\ unusable) =>
                /\ c.result = [raised |-> FALSE, code |-> 0, data |-> PyNone,
                               msg |-> "weizhaodaodaan", source |-> "ai"]
                /\ c.log \in {<<"lookup">>, <<"lookup", "query">>}
                /\ store = c.pre

W_C7 ==
    \E p \in Procs :
        /\ Done(p)
        /\ procs[p].found = 0
        /\ procs[p].avail
        /\ procs[p].ai_answer = PyStr(<<"x", "chaoshi">>)
        /\ procs[p].result.code = 0

\* C8: after any interleaving of two concurrent query_answer calls for one
\* title, each on its own session, both missing the cache, both with a valid
\* AI answer and both persisting through create, the store holds exactly one
\* record with that title.
C8_OneRecord ==
    ( /\ Done(1) /\ Done(2)
      /\ procs[1].req.title = procs[2].req.title
      /\ procs[1].log = <<"lookup", "query", "create">>
      /\ procs[2].log = <<"lookup", "query", "create">> )
        => CountOf(store, procs[1].req.title) = 1

\* The two create calls i and i+1 of the history: no fault, one title,
\* different answers, no record with the title before the first.
TwiceSameTitle(i) ==
    /\ created[i].fault = "none" /\ created[i + 1].fault = "none"
    /\ created[i].question = created[i + 1].question
    /\ created[i].answer # created[i + 1].answer
    /\ CountOf(created[i].pre, created[i].question) = 0

\* C9: calling create twice with one title and different answers leaves
\* exactly one record with that title, holding the answer, options and type
\* of the second call; the number of records has grown by one, not two.
C9_SequentialUpsert ==
    \A i \in 1..(Len(created) - 1) :
        TwiceSameTitle(i) =>
            LET c == created[i + 1]
                k == find_by_question(c.post, c.question)
            IN  /\ CountOf(c.post, c.question) = 1
                /\ c.post[k].answer = c.answer
                /\ c.post[k].options = c.options
                /\ c.post[k].type = c.type
                /\ Len(c.post) = Len(created[i].pre) + 1

W_C9 ==
    \E i \in 1..(Len(created) - 1) :
        /\ TwiceSameTitle(i)
        /\ created[i].options # created[i + 1].options
        /\ store = created[i + 1].post
        /\ CountOf(store, created[i].question) = 1

\* C10: in _make_request a post answered with a 4xx status is not retried:
\* the request has failed right after that post, with no pause and no
\* further post, whatever max_retries is.
C10_NoRetryOn4xx ==
    \A i \in DOMAIN rq.log :
        rq.log[i] = "s4xx" =>
            /\ i = Len(rq.log)
            /\ rq.pc = "done"
            /\ rq.raised

\* The failures the loop of _make_request answers with another attempt.
Retryable == {"s5xx", "timeout", "reqexc"}

NotSleep(x) == x # "sleep"

\* The posts the running (or finished) _make_request has made, in order.
Posts == SelectSeq(rq.log, NotSleep)

AllPosts(S) == \A i \in 1..Len(Posts) : Posts[i] \in S

\* C11: when the first N-1 attempts fail with a retryable failure (status
\* >= 500, timeout, transport exception) and attempt N <= max_retries
\* succeeds, _make_request goes on to attempt N, returns its response text,
\* and has made exactly N attempts, none after the success.
C11_SuccessAfterRetries ==
    (Len(Posts) >= 1 /\ \A i \in 1..(Len(Posts) - 1) : Posts[i] \in Retryable) =>
        LET N == Len(Posts)
        IN  /\ (Posts[N] \in Retryable /\ N < rq.max_retries) =>
                  /\ rq.pc \in {"sleep", "loop"}
                  /\ ~rq.raised
            /\ Posts[N] = "ok" =>
                  /\ rq.pc = "done"
                  /\ ~rq.raised
                  /\ rq.body = OkBody
                  /\ N = rq.attempt + 1
                  /\ N <= rq.max_retries

W_C11 ==
    /\ rq.pc = "done"
    /\ rq.max_retries = 3
    /\ Posts = <<"s5xx", "timeout", "ok">>
    /\ rq.body = OkBody

\* The attempts of _make_request never exceed max_retries, and a call that
\* failed after retryable failures only has made exactly max_retries of them.
AttemptsBounded ==
    /\ Len(Posts) <= rq.max_retries
    /\ (rq.pc = "done" /\ rq.raised /\ AllPosts(Retryable)) =>
          Len(Posts) = rq.max_retries

\* C12: in every execution of _make_request the number of HTTP attempts
\* never exceeds max_retries; when every attempt fails with a retryable
\* failure exactly max_retries attempts are made before the call fails; and
\* the call always terminates.
C12_BoundedAndTerminates ==
    /\ []AttemptsBounded
    /\ (rq.pc \in {"loop", "sleep"}) ~> (rq.pc = "done")

W_C12 ==
    /\ rq.pc = "done"
    /\ rq.raised
    /\ rq.max_retries = 3
    /\ Posts = <<"timeout", "s5xx", "reqexc">>

\* C20: when all max_retries attempts of _make_request fail, the error it
\* raises names the cause: the timeout error when they timed out, the
\* transport error when they failed with a transport exception, and the
\* retry-exhaustion error when every attempt returned a status >= 500.
C20_TerminalErrorNamesCause ==
    (rq.pc = "done" /\ rq.raised /\ rq.max_retries >= 1
                    /\ Len(Posts) = rq.max_retries) =>
        /\ AllPosts({"timeout"}) => rq.msg = TimeoutMsg
        /\ AllPosts({"reqexc"}) => rq.msg = RequestExcMsg(ExcText)
        /\ AllPosts({"s5xx"}) => rq.msg = ExhaustedMsg

\* The identifier has a configuration, an adapter class, enabled=true and
\* a non-empty api_key.
Constructible(name) ==
    /\ name \in DOMAIN factory.settings.providers
    /\ name \in factory.providers_map
    /\ factory.settings.providers[name].enabled
    /\ factory.settings.providers[name].api_key

\* C18: create_provider returns no instance for an identifier whose api_key
\* is empty even when enabled=true, and none for enabled=false with a key;
\* it returns an instance only when the identifier has a configuration, a
\* registered adapter class, enabled=true and a non-empty api_key.
C18_InstanceOnlyWhenUsable ==
    \A p \in Procs :
        reg.th[p].pc = "done" =>
            /\ (reg.th[p].ret # NoObject) <=> Constructible(reg.th[p].name)
            /\ reg.th[p].ret # NoObject => is_enabled(reg.th[p].ret.obj)

W_C18 ==
    \E p \in Procs :
        /\ reg.th[p].pc = "done"
        /\ reg.th[p].name = "alibaba"
        /\ "alibaba" \in DOMAIN factory.settings.providers
        /\ factory.settings.providers["alibaba"] = ProviderConfig(TRUE, FALSE)
        /\ reg.th[p].ret = NoObject
        /\ reg.th[p].why = "disabled"

\* C19: for an enabled, keyed identifier, once the concurrent first-time
\* create_provider calls have completed, the cache holds one instance for
\* the identifier, and every later call returns that instance and
\* constructs none.
C19_OneInstanceReused ==
    \A p \in Procs :
        LET t == reg.th[p]
        IN  (t.pc = "done" /\ Constructible(t.name)) =>
                /\ t.ret # NoObject
                /\ ~InFlight(t.name) =>
                      /\ t.name \in DOMAIN factory.cache
                      /\ factory.cache[t.name].id \in 1..(reg.next_id - 1)
                /\ t.settled =>
                      /\ t.why = "cached"
                      /\ t.ret = factory.cache[t.name]

W_C19 ==
    /\ reg.next_id = 3
    /\ "alibaba" \in DOMAIN factory.cache
    /\ reg.th[1].pc = "done" /\ reg.th[1].settled
    /\ reg.th[1].ret = factory.cache["alibaba"]
    /\ reg.th[2].pc = "done" /\ reg.th[2].why = "created"
    /\ reg.th[2].ret # factory.cache["alibaba"]

\* Something inside query raised: _make_request, or _parse_response on
\* the response text.
InternalFailure(provider, outs) ==
    LET r == _make_request(outs, 0, DefaultMaxRetries)
    IN  r.raised \/ _parse_response(provider, r.body).raised

\* C13: an adapter's query never raises to its caller: for every outcome
\* of the request it returns a value, and after an internal failure that
\* value is a string with the provider's name and "API调用失败" followed by
\* the reason, which _is_valid_answer rejects.
C13_QueryNeverRaises ==
    call.fn = "query" =>
        /\ call.out.t \in {"str", "int", "dict", "none"}
        /\ InternalFailure(call.provider, call.outs) =>
              /\ call.out.t = "str"
              /\ IsPrefix(FailurePrefix(call.provider), call.out.s)
              /\ Contains(call.out.s, <<"API", "diaoyongshibai", ":", " ">>)
              /\ Len(call.out.s) > Len(FailurePrefix(call.provider))
              /\ _is_valid_answer(call.out) = "invalid"

W_C13 ==
    /\ call.fn = "query"
    /\ call.provider = "openai"
    /\ call.outs = Run(0, "s5xx", Envelope("nofield", PyNone))
    /\ call.out = PyStr(FailurePrefix("openai") \o <<SQ, "x", SQ>>)

\* The text has one of the seven indicators, letter case apart.
HasIndicator(text) ==
    \E k \in DOMAIN error_keywords : Contains(lower(text), lower(error_keywords[k]))

\* C14: for each of the seven failure indicators and every text that has
\* it anywhere, in any letter case, _is_valid_answer returns false.
C14_EveryIndicatorRejected ==
    (call.fn = "valid" /\ HasIndicator(call.text)) => call.verdict = "invalid"

\* C15: for every text with "超时" anywhere _is_valid_answer returns
\* false, whatever the rest of the text; and for every empty or
\* whitespace-only text it returns false.
C15_TimeoutAndBlankRejected ==
    call.fn = "valid" =>
        /\ Contains(call.text, <<"chaoshi">>) => call.verdict = "invalid"
        /\ IsBlank(call.text) => call.verdict = "invalid"

W_C15 ==
    /\ call.fn = "valid"
    /\ call.text = <<"x", "chaoshi", " ">>
    /\ call.verdict = "invalid"

\* C16: _extract_answer_from_json recovers the answer from an object whose
\* key is bare: {answer: v}, or {anwser: v}, with v as given, yields v.
C16_BareKeyRecovered ==
    call.fn = "extract" =>
        \A key \in {"answer", "anwser"}, v \in AnswerTexts :
            call.text = BareReply(key, v) => call.out = PyStr(v)

\* No strategy of the extractor yields an answer: no pair of braces; or the
\* slice between the braces does not parse and the search finds no quoted
\* answer / anwser pair; or the object parsed has neither key.
NoStrategy(text) ==
    IF find(text, LB) = 0 \/ find(text, RB) = 0 THEN TRUE
    ELSE LET d == json_loads(Normalize(SubSeq(text, find(text, LB), rfind(text, RB))))
         IN  IF d.ok THEN d.ans = Missing /\ d.anw = Missing
             ELSE PairSearch(text, "answer") = <<>> /\ PairSearch(text, "anwser") = <<>>

\* C17: _extract_answer_from_json is total on strings, and whenever no
\* strategy yields an answer it returns the input text as it came.
C17_TotalAndPassthrough ==
    call.fn = "extract" =>
        /\ call.out.t \in {"str", "int", "dict", "none"}
        /\ NoStrategy(call.text) => call.out = PyStr(call.text)

W_C17 ==
    /\ call.fn = "extract"
    /\ call.text = <<LB, DQ, "answer", DQ, Colon, " ", "beijing", RB>>
    /\ NoStrategy(call.text)
    /\ call.out = PyStr(call.text)

IsSleep(x) == x = "sleep"

\* The pauses the running (or finished) _make_request has made.
Sleeps == SelectSeq(rq.log, IsSleep)

\* C21: _make_request pauses exactly once, for the same retry_delay,
\* between every two consecutive attempts and nowhere else: a call that made
\* k attempts has made k-1 pauses, each after a failed attempt and before
\* the next attempt, none before the first attempt or after the last, and
\* the delay does not grow with the attempt number.
C21_OnePauseBetweenAttempts ==
    /\ \A i \in DOMAIN rq.log :
          IF rq.log[i] = "sleep"
          THEN /\ i > 1
               /\ rq.log[i - 1] \in AttemptKinds \ {"ok"}
               /\ i = Len(rq.log) => rq.pc = "loop"
          ELSE i > 1 => rq.log[i - 1] = "sleep"
    /\ (rq.pc = "done" /\ Len(Posts) >= 1) => Len(Sleeps) = Len(Posts) - 1
    /\ rq.pc = "sleep" => Len(Sleeps) = Len(Posts) - 1
    /\ rq.slept = Len(Sleeps) * rq.retry_delay

W_C21 ==
    /\ rq.pc = "done"
    /\ rq.log = <<"s5xx", "sleep", "timeout", "sleep", "ok">>
    /\ rq.retry_delay = 2
    /\ rq.slept = 4

\* C29: with max_retries <= 0 _make_request makes no attempt and no pause
\* and fails with the retry-exhaustion error; with max_retries >= 1 the raise
\* after the loop is never reached, the last iteration returns or raises.
C29_ExhaustionOnlyWithoutAttempts ==
    /\ (rq.pc = "done" /\ rq.max_retries <= 0) =>
          /\ rq.log = <<>>
          /\ rq.slept = 0
          /\ rq.raised
          /\ rq.msg = ExhaustedMsg
    /\ \A m \in (-1)..0 :
          _make_request(<<>>, 0, m) = [raised |-> TRUE, body |-> NoBody, msg |-> ExhaustedMsg]
    /\ (rq.pc # "idle" /\ rq.max_retries >= 1) =>
          /\ ~(rq.pc = "loop" /\ rq.attempt >= rq.max_retries)
          /\ rq.pc = "done" => (rq.msg # ExhaustedMsg /\ Len(Posts) >= 1)

W_C29 ==
    /\ rq.pc = "done"
    /\ rq.max_retries = 0
    /\ rq.log = <<>>
    /\ rq.msg = ExhaustedMsg

\* The response text the query of the call handed to _parse_response: the
\* body of a first post that answered.
Parsed == _parse_response(call.provider, call.outs[1].body)

\* C22: _parse_response of the OpenAI and the Google adapter never raises:
\* for every response text it returns a value, and for invalid JSON, JSON
\* without the expected top-level key or with an empty list, and a first
\* element without the nested fields, that value is the one sentinel
\* "无法从API获取答案".
C22_ParseNeverRaises ==
    (call.fn = "query" /\ call.provider \in {"openai", "google"}
        /\ call.outs[1].kind = "ok") =>
        /\ ~Parsed.raised
        /\ call.outs[1].body.shape \in {"badjson", "nokey", "nofield"} =>
              Parsed.text = Sentinel

\* A create_provider call of thread p returns in this step.
Returns(p) == reg.th[p].pc # "done" /\ reg'.th[p].pc = "done"

\* A create_provider call of thread p makes its cache test in this step.
Begins(p) == reg.th[p].pc = "idle" /\ reg'.th[p].pc # "idle"

\* C23: every instance in _instances_cache is enabled and has a non-empty
\* api_key; a create_provider call that returns no instance (no
\* configuration, no class, disabled, empty key, a constructor that raises)
\* leaves the cache as it was, so a call for an identifier the cache does
\* not hold evaluates it again.
C23_CacheHoldsUsableOnly ==
    /\ [](\A n \in DOMAIN factory.cache : is_enabled(factory.cache[n].obj))
    /\ [][\A p \in Procs :
            /\ (Returns(p) /\ reg'.th[p].ret = NoObject) => factory'.cache = factory.cache
            /\ (Begins(p) /\ reg'.th[p].name \notin DOMAIN factory.cache) =>
                  reg'.th[p].pc = "construct"]_vars

W_C23 ==
    \E p \in Procs :
        /\ reg.th[p].pc = "done"
        /\ reg.th[p].why = "failed"
        /\ reg.th[p].ret = NoObject
        /\ reg.th[p].name \notin DOMAIN factory.cache
        /\ reg.th[p].name \in DOMAIN factory.settings.providers
        /\ factory.settings.providers[reg.th[p].name] = ProviderConfig(TRUE, TRUE)

\* C24: for an identifier the cache does not hold, create_provider checks
\* in a fixed order and each failure has its own reason: no configuration
\* gives not-found, also when there is no adapter class either; a
\* configuration without a class gives unsupported; only then is the adapter
\* built and tested for enabled and key.  Each failure returns None.
C24_ChecksInOrder ==
    \A p \in Procs :
        LET t == reg.th[p]
        IN  (t.pc = "done" /\ t.why # "cached") =>
                /\ t.name \notin DOMAIN factory.settings.providers =>
                      (t.why = "notfound" /\ t.ret = NoObject)
                /\ (t.name \in DOMAIN factory.settings.providers
                        /\ t.name \notin factory.providers_map) =>
                      (t.why = "unsupported" /\ t.ret = NoObject)
                /\ (t.name \in DOMAIN factory.settings.providers
                        /\ t.name \in factory.providers_map) =>
                      /\ t.why \in {"disabled", "created"}
                      /\ t.why = "disabled" <=>
                            ~is_enabled(NewInstance(t.name,
                                            factory.settings.providers[t.name]))
                      /\ t.why = "disabled" <=> t.ret = NoObject

W_C24 ==
    \E p \in Procs :
        /\ reg.th[p].pc = "done"
        /\ reg.th[p].name = "custom"
        /\ "custom" \notin DOMAIN factory.settings.providers
        /\ "custom" \notin factory.providers_map
        /\ reg.th[p].why = "notfound"
        /\ reg.th[p].ret = NoObject

\* C28: once an identifier is cached and no first-time call for it is
\* still running, the cache keeps that instance through every step that is
\* not clear_cache (register_provider replacing its class and
\* reload_settings disabling it included), and a create_provider call for a
\* cached identifier returns the cached instance and builds none; after
\* clear_cache the next call builds a new one.
C28_CachedUntilCleared ==
    [][/\ \A n \in DOMAIN factory.cache :
            (reg'.clears = reg.clears /\ ~InFlight(n)) =>
                /\ n \in DOMAIN factory'.cache
                /\ factory'.cache[n] = factory.cache[n]
       /\ \A p \in Procs :
            (Begins(p) /\ reg'.th[p].name \in DOMAIN factory.cache) =>
                /\ reg'.th[p].pc = "done"
                /\ reg'.th[p].ret = factory.cache[reg'.th[p].name]
                /\ reg'.next_id = reg.next_id
                /\ factory' = factory
       /\ \A p \in Procs :
            (Begins(p) /\ reg'.th[p].name \notin DOMAIN factory.cache
                /\ reg.clears > 0 /\ Constructible(reg'.th[p].name)
                /\ ~ClassOf(reg, reg'.th[p].name).fails) =>
                reg'.th[p].pc = "construct"]_vars

W_C28 ==
    /\ reg.th[Caller].pc = "done"
    /\ reg.th[Caller].name = "alibaba"
    /\ reg.th[Caller].why = "cached"
    /\ reg.th[Caller].at = 2
    /\ reg.th[Caller].ret = factory.cache["alibaba"]
    /\ ClassOf(reg, "alibaba").ver = 1
    /\ "alibaba" \in DOMAIN factory.settings.providers
    /\ ~factory.settings.providers["alibaba"].enabled

\* The call of session p has asked the provider.
Asked(p) == "query" \in {procs[p].log[i] : i \in DOMAIN procs[p].log}

C30_LookupFaultIsMiss ==
    \A p \in Procs :
        LET c == procs[p]
            verdict == IF Truthy(c.ai_answer) THEN _is_valid_answer(c.ai_answer)
                       ELSE "invalid"
        IN  (Done(p) /\ c.lookupFault) =>
                /\ c.found = 0
                /\ c.avail => (Len(c.log) >= 2 /\ c.log[2] = "query")
                /\ verdict = "valid" =>
                      c.result = QueryData(1, c.ai_answer, "AIhuida", "ai")
                /\ verdict = "invalid" => c.result = NotFound(c.ai_answer)
                /\ verdict # "raise" =>
                      (~c.result.raised /\ c.result.source = "ai")

W_C30 ==
    /\ Done(1)
    /\ procs[1].lookupFault
    /\ CountOf(procs[1].pre, procs[1].req.title) > 0
    /\ Asked(1)
    /\ procs[1].result.code = 1
    /\ procs[1].result.source = "ai"

\* The records of the table with that question, in order.
Own(table, question) ==
    LET F[i \in 0..Len(table)] ==
            IF i = 0 THEN <<>>
            ELSE IF table[i].question = question THEN Append(F[i - 1], table[i])
            ELSE F[i - 1]
    IN  F[Len(table)]

\* What _is_valid_answer decides for the answer of the call.
VerdictOf(c) ==
    IF Truthy(c.ai_answer) THEN _is_valid_answer(c.ai_answer) ELSE "invalid"

\* The result of a query_answer call run on its own against the records
\* own of its title, the provider answering c.ai_answer.
AloneResult(own, c) ==
    IF own # <<>>
    THEN QueryData(1, PyStr(own[1].answer), "laiyubendi", "public")
    ELSE CASE VerdictOf(c) = "valid" -> QueryData(1, c.ai_answer, "AIhuida", "ai")
           [] VerdictOf(c) = "invalid" -> NotFound(c.ai_answer)
           [] OTHER -> SystemFault

\* The records of its title that call leaves.
AloneStore(own, c) ==
    IF own = <<>> /\ VerdictOf(c) = "valid"
    THEN <<[question |-> c.req.title, answer |-> c.ai_answer.s,
            options |-> c.req.options, type |-> c.req.type]>>
    ELSE own

\* C25: concurrent query_answer calls for different titles are
\* independent: each returns the result, and leaves the records of its own
\* title, that it would running alone, and no step of a call changes the
\* records of the other title.
C25_DifferentTitlesIndependent ==
    /\ [](\A p \in Procs :
            Done(p) =>
                LET c == procs[p]
                    own == Own(c.pre, c.req.title)
                IN  /\ c.result = AloneResult(own, c)
                    /\ Own(store, c.req.title) = AloneStore(own, c))
    /\ [][\A p \in Procs :
            procs'[p] # procs[p] =>
                \A t \in Titles \ {TitleOf(p)} : Own(store', t) = Own(store, t)]_vars

W_C25 ==
    /\ Done(1) /\ Done(2)
    /\ procs[1].pre = <<>> /\ procs[2].pre = <<>>
    /\ procs[1].log = <<"lookup", "query", "create">>
    /\ procs[2].log = <<"lookup", "query", "create">>
    /\ Len(store) = 2
    /\ store[1].question = "q2"
    /\ store[2].question = "q1"

\* C26: an adapter built by the factory runs with max_retries = 3,
\* retry_delay = 2 and timeout = 30 whatever ai.max_retries, ai.retry_delay
\* and ai.timeout say, because the dict of a ProviderConfig has no such
\* keys; a request of it that fails on every attempt is attempted exactly 3
\* times.
C26_AdapterIgnoresAISettings ==
    /\ "max_retries" \notin ProviderConfigFields
    /\ "retry_delay" \notin ProviderConfigFields
    /\ "timeout" \notin ProviderConfigFields
    /\ \A n \in DOMAIN factory.cache :
          /\ factory.cache[n].max_retries = 3
          /\ factory.cache[n].retry_delay = 2
          /\ factory.cache[n].timeout = 30
    /\ rq.pc # "idle" => (rq.max_retries = 3 /\ rq.retry_delay = 2)
    /\ (rq.pc = "done" /\ rq.raised /\ AllPosts(Retryable)) => Len(Posts) = 3

W_C26 ==
    /\ factory.settings.ai_max_retries = 5
    /\ factory.settings.ai_retry_delay = 1
    /\ factory.settings.ai_timeout = 10
    /\ factory.settings.ai_default_provider \in DOMAIN factory.cache
    /\ rq.pc = "done"
    /\ rq.raised
    /\ rq.log = <<"timeout", "sleep", "timeout", "sleep", "timeout">>
    /\ rq.slept = 4

====
